---- MODULE Spec2Model ----
(***************************************************************************)
(* The daemon side of streaks.json: the Breakday Reconciler and the old    *)
(* per-calendar sweep (src/src/scripts/daemons.ts), the decision sweep     *)
(* sendReminders and the event-triggered sendCongratulation                *)
(* (src/src/scripts/notifications/notifications.ts), run against a         *)
(* document store of users and calendars, a wall clock and the Matrix      *)
(* notification channel.                                                   *)
(*                                                                         *)
(* A step of the model is the code between two awaits (or promise          *)
(* callbacks) of one invocation; store reads and writes of different       *)
(* invocations and of the users' own requests interleave at those points.  *)
(***************************************************************************)
EXTENDS Integers, Sequences, FiniteSets, TLC

\* ------------------------------------------------------------------ bounds
MaxUsers == 2
MaxCals == 2
MaxDay == 2
MaxTod == 1
MaxCount == 2
MaxLen == 4

Users == 1..MaxUsers
Cals == 1..MaxCals
Dates == 1..MaxDay
Tods == 0..MaxTod

\* The two invocation slots in which sweeps run, and the slot of the
\* event-triggered congratulation.
Daemons == {"d1", "d2"}
Tasks == Daemons \cup {"ev"}

\* ------------------------------------------------------------ the data model
\* days.get(date) is one of these, or undefined (NoStatus).
Status == {"success", "fail", "breakday"}
NoStatus == "none"

\* new Date().getDay() of a modelled date (0 = Sunday .. 6 = Saturday).
WeekdayOf(d) == d % 7

\* The agenda given to a new calendar: [1, 1, 1, 1, 1, 1, 1].
DefaultAgenda == [w \in 0..6 |-> TRUE]

\* Agendas that differ from the default on the weekdays of the modelled dates.
Agendas == {[w \in 0..6 |-> w \notin off] : off \in SUBSET {WeekdayOf(d) : d \in Dates}}

\* '24:00', the fallback end of the window, lies after every time of day.
EndOfDay == MaxTod + 1

VARIABLES
    matrixEnabled,  \* process.env.MATRIX_ENABLED == 'true'
    users,          \* the stored user documents
    calendars,      \* the stored calendar documents
    clock,          \* the wall clock: [day, tod]
    task,           \* the invocations in flight, one record per slot
    hist            \* what has been handed to the channel so far today

vars == <<matrixEnabled, users, calendars, clock, task, hist>>

\* ------------------------------------------------------------ stored documents
\* A user document. notifications is the sub-document as a whole
\* (users[u].notifications may be undefined); room stands for a non-empty
\* matrix.room_id; start/end are matrix.start_date/end_date as time slots.
UserDoc(n, r, w, e, ch) ==
    [notifications |-> n, room |-> r, start |-> w[1], end |-> w[2],
     enabled |-> e, channel |-> ch, sent_today |-> FALSE]

\* A calendar document; a new calendar has days: {}.
CalDoc(o, a, r) ==
    [user_id |-> o, agenda |-> a, reminders |-> r,
     days |-> [d \in Dates |-> NoStatus]]

\* Calendar.find({user_id}) in the order of the collection.
RECURSIVE SeqOfSet(_)
SeqOfSet(S) ==
    IF S = {} THEN <<>>
    ELSE LET m == CHOOSE x \in S : \A y \in S : x <= y
         IN <<m>> \o SeqOfSet(S \ {m})

CalendarsOf(u) == {c \in Cals : calendars[c].user_id = u}

\* ------------------------------------------------------------ invocations
IdleTask ==
    [fn |-> "none", pc |-> "idle", matrix |-> "none", snap |-> <<>>,
     idx |-> 0, pend |-> FALSE, batch |-> <<>>, evals |-> <<>>,
     calsnap |-> <<>>, writes |-> {}, user |-> 0, cal |-> 0, err |-> "",
     ret |-> 0]

\* One element of notificationsPromises: the send was started when it was
\* pushed, and settles later.
Send(k, u, c, el, fl) ==
    [kind |-> k, user |-> u, cal |-> c, elig |-> el, fails |-> fl, st |-> "pending"]

\* Promise.all in the place of Promise.allSettled: rejected by the first
\* send that fails.
AllSettled_All(b) ==
    IF \E i \in 1..Len(b) : b[i].st = "failed" THEN "rejected"
    ELSE IF \A i \in 1..Len(b) : b[i].st = "ok" THEN "fulfilled" ELSE "pending"

\* Promise.allSettled(notificationsPromises): pending until every promise has
\* settled, then fulfilled whatever the outcomes.
AllSettled(b) ==
    IF \A i \in 1..Len(b) : b[i].st # "pending" THEN "fulfilled" ELSE "pending"

Bump(n) == IF n < MaxCount THEN n + 1 ELSE n

\* The counts of a day start empty: the all-done congratulations handed to
\* the channel for each user (done; since: while the statuses of the user's
\* calendars are unchanged), the congratulations for each calendar, and
\* whether an update of sent_today to true was lost in the store.
NoHist ==
    [done |-> [u \in Users |-> 0], since |-> [u \in Users |-> 0],
     congrats |-> [c \in Cals |-> 0], lost |-> [u \in Users |-> FALSE]]

\* The sends of a batch of one kind to one user.
SendsOf(b, k, u) == {i \in 1..Len(b) : b[i].kind = k /\ b[i].user = u}

\* ------------------------------------------------------------ helpers
\* hour_between(start, end): whether the current time of day lies in the
\* window, which wraps midnight when end < start.
HourBetween(start, end) ==
    IF start <= end
    THEN start <= clock.tod /\ clock.tod <= end
    ELSE clock.tod >= start \/ clock.tod <= end

\* user.setStreaksDoneSentToday(v): updates the stored flag.
SetStreaksDoneSentToday(u, v) ==
    users' = [users EXCEPT ![u].sent_today = v]

\* user.setDayState(calendar, date, state): persists one entry of days.
SetDayState(c, d, s) ==
    calendars' = [calendars EXCEPT ![c].days[d] = s]

\* A change of a day status of a calendar starts a new period for the counts
\* "while the statuses are unchanged" of the calendar and of its owner.
Touch(h, c) ==
    [h EXCEPT !.since[calendars[c].user_id] = 0, !.congrats[c] = 0,
              !.lost[calendars[c].user_id] = FALSE]

\* The loop `for (u = 0; u < users.length; u++)` moves on: the next user, or
\* the await on Promise.allSettled after the last one.
NextUser(t) ==
    IF t.idx < MaxUsers
    THEN [t EXCEPT !.idx = t.idx + 1, !.pc = "getCalendars"]
    ELSE [t EXCEPT !.idx = t.idx + 1, !.pc = "settle"]

\* ------------------------------------------------------------ sendReminders
\* The reminder-eligible calendars of a user, and those of them whose status
\* for today is absent or 'fail' (the entries of `sum` with fail: true).
Eligible(u) == {c \in CalendarsOf(u) : calendars[c].reminders}
Failing_OnlyFail(u) ==
    {c \in Eligible(u) : calendars[c].days[clock.day] = "fail"}

Failing(u) ==
    {c \in Eligible(u) : ~ (calendars[c].days[clock.day] # NoStatus
                            /\ calendars[c].days[clock.day] # "fail")}

\* `matrix && room_id` and the time window: the reminder is queued.
ReminderQueued(t, me) ==
    t.matrix = "open" /\ me.room /\ HourBetween(me.start, me.end)

\* The else-if without its sent_today test.
StreaksDoneDue_NoFlag(me) ==
    me.enabled /\ me.channel # ""

\* The else-if of the loop: the all-done congratulation is due.
StreaksDoneDue(me) ==
    me.enabled /\ me.channel # "" /\ ~ me.sent_today

\* `matrix && channel == 'matrix' && room_id`: the congratulation is queued.
StreaksDoneQueued(t, me) ==
    t.matrix = "open" /\ me.channel = "matrix" /\ me.room

\* The reset nested under the test that queues the reminder.
ResetDue_WhenQueued(t, me) ==
    t.matrix = "open" /\ me.room /\ me.sent_today

\* After the reminder: `if (sent_today) await setStreaksDoneSentToday(false)`.
ResetDue(t, me) == me.sent_today

\* sendReminders() is called: MATRIX_ENABLED decides whether a client is made.
SR_Start(p) ==
    /\ task[p].pc = "idle"
    /\ task' = [task EXCEPT ![p] =
                  [IdleTask EXCEPT !.fn = "sendReminders",
                                   !.pc = IF matrixEnabled THEN "connect" ELSE "getUsers"]]
    /\ UNCHANGED <<matrixEnabled, users, calendars, clock, hist>>

\* await matrix.connect(): it resolves, or it rejects and sendReminders
\* rejects with it.
SR_Connect(p) ==
    /\ task[p].fn = "sendReminders"
    /\ task[p].pc = "connect"
    /\ \E ok \in BOOLEAN :
         task' = [task EXCEPT ![p] =
                    IF ok THEN [@ EXCEPT !.matrix = "open", !.pc = "getUsers"]
                    ELSE [@ EXCEPT !.pc = "rejected", !.err = "connect"]]
    /\ UNCHANGED <<matrixEnabled, users, calendars, clock, hist>>

\* A rejection of a store request that sendReminders awaits: nothing
\* catches it and sendReminders rejects with it.
Thrown(t, e) == [t EXCEPT !.pc = "rejected", !.err = e]

\* const users = await getUsers(): the list of the users, or a rejection.
SR_GetUsers(p) ==
    /\ task[p].fn = "sendReminders"
    /\ task[p].pc = "getUsers"
    /\ \E ok \in BOOLEAN :
         task' = [task EXCEPT ![p] =
                    IF ok
                    THEN [@ EXCEPT !.snap = users, !.idx = 1, !.pc = "getCalendars",
                                   !.evals = [u \in {} |-> 0]]
                    ELSE Thrown(@, "getUsers")]
    /\ UNCHANGED <<matrixEnabled, users, calendars, clock, hist>>

\* One iteration of the loop over the users, from `await getCalendars()` to
\* the next await (the update of sent_today) or to the next iteration.
\* evals keeps, per user, what the iteration found: the failing calendars of
\* `sum` and whether the time of day was inside the user's window.
SR_EvalCalendars(p) ==
    LET t == task[p]
        u == t.idx
        me == t.snap[u]
        has_fails == Failing(u) # {}
        ev == [fails |-> Failing(u), window |-> HourBetween(me.start, me.end)]
        seen == [x \in DOMAIN t.evals \cup {u} |->
                   IF x = u THEN ev ELSE t.evals[x]]
    IN IF ~ me.notifications
       THEN /\ task' = [task EXCEPT ![p] = NextUser(t)]
            /\ hist' = hist
       ELSE IF has_fails
       THEN LET b == IF ReminderQueued(t, me)
                     THEN Append(t.batch,
                                 Send("reminder", u, 0, Eligible(u), Failing(u)))
                     ELSE t.batch
                t2 == [t EXCEPT !.batch = b, !.evals = seen]
            IN /\ task' = [task EXCEPT ![p] =
                             IF ResetDue(t, me)
                             THEN [t2 EXCEPT !.pc = "write", !.pend = FALSE]
                             ELSE NextUser(t2)]
               /\ hist' = hist
       ELSE IF StreaksDoneDue(me)
       THEN LET queued == StreaksDoneQueued(t, me)
                b == IF queued
                     THEN Append(t.batch, Send("streaks_done", u, 0, {}, {}))
                     ELSE t.batch
            IN /\ task' = [task EXCEPT ![p] =
                             [t EXCEPT !.batch = b, !.evals = seen,
                                       !.pc = "write", !.pend = TRUE]]
               /\ hist' = IF queued
                          THEN [hist EXCEPT !.done[u] = Bump(@), !.since[u] = Bump(@)]
                          ELSE hist
       ELSE /\ task' = [task EXCEPT ![p] = NextUser([t EXCEPT !.evals = seen])]
            /\ hist' = hist

\* `await users[u].getCalendars()` and the iteration that follows it; a
\* user without notifications is passed over before the calendars are asked
\* for. getCalendars rejects when the store fails.
SR_EvalUser(p) ==
    /\ task[p].fn = "sendReminders"
    /\ task[p].pc = "getCalendars"
    /\ \/ SR_EvalCalendars(p)
       \/ /\ task[p].snap[task[p].idx].notifications
          /\ task' = [task EXCEPT ![p] = Thrown(@, "getCalendars")]
          /\ hist' = hist
    /\ UNCHANGED <<matrixEnabled, users, calendars, clock>>

\* await users[u].setStreaksDoneSentToday(...)
SR_Write(p) ==
    /\ task[p].fn = "sendReminders"
    /\ task[p].pc = "write"
    /\ \/ /\ SetStreaksDoneSentToday(task[p].idx, task[p].pend)
          /\ task' = [task EXCEPT ![p] = NextUser(@)]
          /\ hist' = hist
       \/ /\ users' = users
          /\ task' = [task EXCEPT ![p] = Thrown(@, "setStreaksDoneSentToday")]
          /\ hist' = IF task[p].pend
                     THEN [hist EXCEPT !.lost[task[p].idx] = TRUE]
                     ELSE hist
    /\ UNCHANGED <<matrixEnabled, calendars, clock>>

\* One send settles: matrix resolves or rejects the promise.
Settle(p) ==
    /\ \E i \in 1..Len(task[p].batch), ok \in BOOLEAN :
         /\ task[p].batch[i].st = "pending"
         /\ task' = [task EXCEPT ![p].batch[i].st = IF ok THEN "ok" ELSE "failed"]
    /\ UNCHANGED <<matrixEnabled, users, calendars, clock, hist>>

\* Promise.allSettled(notificationsPromises).then(... matrix.disconnect())
SR_Finish(p) ==
    /\ task[p].fn = "sendReminders"
    /\ task[p].pc = "settle"
    /\ AllSettled(task[p].batch) # "pending"
    /\ task' = [task EXCEPT ![p] =
                  IF AllSettled(task[p].batch) = "fulfilled"
                  THEN [@ EXCEPT !.pc = "resolved",
                                 !.matrix = IF @ = "open" THEN "closed" ELSE @]
                  ELSE [@ EXCEPT !.pc = "rejected", !.err = "send"]]
    /\ UNCHANGED <<matrixEnabled, users, calendars, clock, hist>>

\* ------------------------------------------------------------ sendNotifications
\* The calendars of a user whose status for today is undefined or 'fail'.
Undone(u) ==
    {c \in CalendarsOf(u) : calendars[c].days[clock.day] = NoStatus
                            \/ calendars[c].days[clock.day] = "fail"}

\* `matrix && users[u].notifications.matrix.room_id`
MessageQueued(t, me) == t.matrix = "open" /\ me.room

\* One message per calendar, in the order of the calendars.
RECURSIVE Messages(_, _)
Messages(u, cs) ==
    IF cs = <<>> THEN <<>>
    ELSE <<Send("message", u, Head(cs), {}, {})>> \o Messages(u, Tail(cs))

\* sendNotifications rejects: called on its own the caller sees the
\* rejection; inside runDaemons nothing handles it and the promise of
\* runDaemons is never resolved.
Rejected(t, e) ==
    [t EXCEPT !.pc = IF t.fn = "runDaemons" THEN "unhandled" ELSE "rejected",
              !.err = e]

\* sendNotifications() is called on its own.
SN_Start(p) ==
    /\ task[p].pc = "idle"
    /\ task' = [task EXCEPT ![p] =
                  [IdleTask EXCEPT !.fn = "sendNotifications",
                                   !.pc = IF matrixEnabled THEN "connect" ELSE "getUsers"]]
    /\ UNCHANGED <<matrixEnabled, users, calendars, clock, hist>>

\* await matrix.connect()
SN_Connect(p) ==
    /\ task[p].fn \in {"sendNotifications", "runDaemons"}
    /\ task[p].pc = "connect"
    /\ \E ok \in BOOLEAN :
         task' = [task EXCEPT ![p] =
                    IF ok THEN [@ EXCEPT !.matrix = "open", !.pc = "getUsers"]
                    ELSE Rejected(@, "connect")]
    /\ UNCHANGED <<matrixEnabled, users, calendars, clock, hist>>

\* const users = await getUsers(): the list of the users, or a rejection.
SN_GetUsers(p) ==
    /\ task[p].fn \in {"sendNotifications", "runDaemons"}
    /\ task[p].pc = "getUsers"
    /\ \E ok \in BOOLEAN :
         task' = [task EXCEPT ![p] =
                    IF ok
                    THEN [@ EXCEPT !.snap = users, !.idx = 1, !.pc = "getCalendars"]
                    ELSE Rejected(@, "getUsers")]
    /\ UNCHANGED <<matrixEnabled, users, calendars, clock, hist>>

\* One iteration of the loop over the users: `await user.getCalendars()`,
\* which rejects when the store fails, and the loop over the calendars.
\* Reading notifications.matrix of a user without notifications throws.
SN_EvalUser(p) ==
    /\ task[p].fn \in {"sendNotifications", "runDaemons"}
    /\ task[p].pc = "getCalendars"
    /\ LET t == task[p]
           u == t.idx
           me == t.snap[u]
       IN \E ok \in BOOLEAN :
            task' = [task EXCEPT ![p] =
              IF ~ ok
              THEN Rejected(t, "getCalendars")
              ELSE IF Undone(u) = {} \/ t.matrix # "open"
              THEN NextUser(t)
              ELSE IF ~ me.notifications
              THEN Rejected(t, "TypeError")
              ELSE IF MessageQueued(t, me)
              THEN NextUser([t EXCEPT !.batch = @ \o Messages(u, SeqOfSet(Undone(u)))])
              ELSE NextUser(t)]
    /\ UNCHANGED <<matrixEnabled, users, calendars, clock, hist>>

\* Promise.allSettled(notificationsPromises).then(... matrix.disconnect())
SN_Finish(p) ==
    /\ task[p].fn \in {"sendNotifications", "runDaemons"}
    /\ task[p].pc = "settle"
    /\ AllSettled(task[p].batch) # "pending"
    /\ task' = [task EXCEPT ![p] =
                  IF AllSettled(task[p].batch) = "fulfilled"
                  THEN [@ EXCEPT !.pc = "resolved",
                                 !.matrix = IF @ = "open" THEN "closed" ELSE @]
                  ELSE Rejected(@, "send")]
    /\ UNCHANGED <<matrixEnabled, users, calendars, clock, hist>>

\* ------------------------------------------------------------ runDaemons
\* The test of setBreakdays on one calendar of the list it was given: today's
\* weekday is a 0 of the agenda and the day is not a "success".
BreakdayDue(cal, weekday, date) ==
    ~ cal.agenda[weekday] /\ cal.days[date] # "success"

\* runDaemons() is called: it calls setBreakdays(), which asks for the
\* calendars.
RD_Start(p) ==
    /\ task[p].pc = "idle"
    /\ task' = [task EXCEPT ![p] =
                  [IdleTask EXCEPT !.fn = "runDaemons", !.pc = "bd_getCalendars"]]
    /\ UNCHANGED <<matrixEnabled, users, calendars, clock, hist>>

\* After setBreakdays has resolved: sendNotifications() starts.
StartNotifications(t) ==
    [t EXCEPT !.pc = IF matrixEnabled THEN "connect" ELSE "getUsers",
              !.calsnap = <<>>]

\* getCalendars() answers with the list of the calendars, or fails: the
\* catch logs the error and resolves.
BD_GetCalendars(p) ==
    /\ task[p].fn = "runDaemons"
    /\ task[p].pc = "bd_getCalendars"
    /\ \E ok \in BOOLEAN :
         task' = [task EXCEPT ![p] =
                    IF ok THEN [@ EXCEPT !.calsnap = calendars, !.pc = "bd_forEach"]
                    ELSE StartNotifications(@)]
    /\ UNCHANGED <<matrixEnabled, users, calendars, clock, hist>>

\* The clock is read anew at each `new Date()`: for the weekday, for the
\* key of the status that is tested and for the key that is written.
\* ReadNo(c, r) is the place of the r-th read for the c-th calendar among
\* the reads of one forEach.
ClockReads == 3
ReadNo(c, r) == ClockReads * (c - 1) + r
LastRead == ClockReads * MaxCals

\* The forEach over the list: every calendar is tested, and a setDayState is
\* started for each one that is due a breakday. Midnight may pass while the
\* loop runs: the reads up to the k-th one see today, the later ones see
\* the next day (k = LastRead: the day does not change).
BD_ForEach(p) ==
    /\ task[p].fn = "runDaemons"
    /\ task[p].pc = "bd_forEach"
    /\ \E k \in 1..LastRead :
         LET t == task[p]
             turns == k < LastRead
             DayAt(i) == IF i <= k THEN clock.day ELSE clock.day + 1
             due == {c \in Cals :
                       BreakdayDue(t.calsnap[c],
                                   WeekdayOf(DayAt(ReadNo(c, 1))),
                                   DayAt(ReadNo(c, 2)))}
         IN /\ turns => clock.day < MaxDay
            /\ task' = [task EXCEPT ![p] =
                          [t EXCEPT !.writes = {[cal |-> c, date |-> DayAt(ReadNo(c, 3))] :
                                                  c \in due},
                                    !.pc = "bd_writes"]]
            /\ clock' = IF turns THEN [day |-> clock.day + 1, tod |-> 0] ELSE clock
            /\ hist' = IF turns THEN NoHist ELSE hist
    /\ UNCHANGED <<matrixEnabled, users, calendars>>

\* A rejection of setDayState that is not caught: the promise of the
\* calendar never settles, and none of the promises of the list is waited
\* for any more.
Settled_Abort(ws, w, ok) ==
    IF ok THEN ws \ {w} ELSE {}

\* `.catch(log).finally(resolve)`: the promise of the calendar resolves,
\* whether setDayState was fulfilled or rejected; those of the other
\* calendars are still pending.
Settled(ws, w, ok) ==
    ws \ {w}

\* One setDayState(_, _, "breakday") reaches the store, or fails and is
\* logged by the catch.
BD_Write(p) ==
    /\ task[p].fn = "runDaemons"
    /\ task[p].pc = "bd_writes"
    /\ \E w \in task[p].writes, ok \in BOOLEAN :
         /\ IF ok
            THEN /\ SetDayState(w.cal, w.date, "breakday")
                 /\ hist' = Touch(hist, w.cal)
            ELSE UNCHANGED <<calendars, hist>>
         /\ task' = [task EXCEPT ![p].writes = Settled(@, w, ok)]
    /\ UNCHANGED <<matrixEnabled, users, clock>>

\* Promise.allSettled(promisesList): setBreakdays resolves and runDaemons
\* calls sendNotifications().
BD_Done(p) ==
    /\ task[p].fn = "runDaemons"
    /\ task[p].pc = "bd_writes"
    /\ task[p].writes = {}
    /\ task' = [task EXCEPT ![p] = StartNotifications(@)]
    /\ UNCHANGED <<matrixEnabled, users, calendars, clock, hist>>

\* ------------------------------------------------------------ sendCongratulation
\* An early return for every calendar whose status for today is set.
NoCongratulation_AnySet(cal, date) ==
    cal.days[date] # NoStatus

\* The early return: today's status of the calendar is set and is not
\* 'success'.
NoCongratulation(cal, date) ==
    cal.days[date] # NoStatus /\ cal.days[date] # "success"

\* `matrix && room_id` and the time window: the congratulation is queued.
CongratulationQueued(t, me) ==
    t.matrix = "open" /\ me.room /\ HourBetween(me.start, me.end)

\* sendCongratulation(user, calendar) is called with the calendar and its
\* owner as they are stored at the call.
SC_Start(p) ==
    /\ task[p].pc = "idle"
    /\ \E c \in Cals :
         task' = [task EXCEPT ![p] =
                    [IdleTask EXCEPT !.fn = "sendCongratulation",
                                     !.user = calendars[c].user_id,
                                     !.cal = c,
                                     !.snap = users,
                                     !.calsnap = calendars[c],
                                     !.pc = IF matrixEnabled THEN "connect" ELSE "check"]]
    /\ UNCHANGED <<matrixEnabled, users, calendars, clock, hist>>

\* await matrix.connect()
SC_Connect(p) ==
    /\ task[p].fn = "sendCongratulation"
    /\ task[p].pc = "connect"
    /\ \E ok \in BOOLEAN :
         task' = [task EXCEPT ![p] =
                    IF ok THEN [@ EXCEPT !.matrix = "open", !.pc = "check"]
                    ELSE [@ EXCEPT !.pc = "rejected", !.err = "connect"]]
    /\ UNCHANGED <<matrixEnabled, users, calendars, clock, hist>>

\* The test of today's status, which returns at once or goes on to queue the
\* congratulation and to await Promise.allSettled.
SC_Check(p) ==
    /\ task[p].fn = "sendCongratulation"
    /\ task[p].pc = "check"
    /\ LET t == task[p]
           me == t.snap[t.user]
       IN IF NoCongratulation(t.calsnap, clock.day)
          THEN /\ task' = [task EXCEPT ![p] = [t EXCEPT !.pc = "resolved"]]
               /\ hist' = hist
          ELSE IF CongratulationQueued(t, me)
          THEN /\ task' = [task EXCEPT ![p] =
                             [t EXCEPT !.batch = <<Send("congratulation", t.user, t.cal, {}, {})>>,
                                       !.pc = "settle"]]
               /\ hist' = [hist EXCEPT !.congrats[t.cal] = Bump(@)]
          ELSE /\ task' = [task EXCEPT ![p] = [t EXCEPT !.pc = "settle"]]
               /\ hist' = hist
    /\ UNCHANGED <<matrixEnabled, users, calendars, clock>>

\* Promise.allSettled(notificationsPromises).then(... matrix.disconnect())
SC_Finish(p) ==
    /\ task[p].fn = "sendCongratulation"
    /\ task[p].pc = "settle"
    /\ AllSettled(task[p].batch) # "pending"
    /\ task' = [task EXCEPT ![p] =
                  IF AllSettled(task[p].batch) = "fulfilled"
                  THEN [@ EXCEPT !.pc = "resolved",
                                 !.matrix = IF @ = "open" THEN "closed" ELSE @]
                  ELSE [@ EXCEPT !.pc = "rejected", !.err = "send"]]
    /\ UNCHANGED <<matrixEnabled, users, calendars, clock, hist>>

\* The promise of an invocation has been resolved or rejected to its caller;
\* the slot is free for the next invocation.
Return(p) ==
    /\ task[p].pc \in {"resolved", "rejected"}
    /\ task' = [task EXCEPT ![p] = IdleTask]
    /\ UNCHANGED <<matrixEnabled, users, calendars, clock, hist>>

\* ------------------------------------------------------------ countStreaks
\* The agenda designates the day as expected.
Expected(cal, d) == cal.agenda[WeekdayOf(d)]

\* The days with a recorded status that are not in the future.
Recorded(cal, today) ==
    {d \in DOMAIN cal.days : d <= today /\ cal.days[d] # NoStatus}

\* A walk that starts at today, recorded or not.
StartOfWalk_Today(cal, today) == today

\* The walk starts from the most recent day with a recorded status that is
\* not in the future (0: no such day).
StartOfWalk(cal, today) ==
    IF Recorded(cal, today) = {} THEN 0
    ELSE CHOOSE d \in Recorded(cal, today) : \A e \in Recorded(cal, today) : e <= d

\* The walk backward, one day at a time: a day that is not expected is
\* skipped, an expected 'success' counts and the walk goes on, and any other
\* expected day ends it. No day lies before the first one of the calendar.
RECURSIVE Walk(_, _)
Walk(cal, d) ==
    IF d < 1 THEN 0
    ELSE IF ~ Expected(cal, d) THEN Walk(cal, d - 1)
    ELSE IF cal.days[d] = "success" THEN 1 + Walk(cal, d - 1)
    ELSE 0

\* countStreaks(calendar)
CountStreaks(cal, today) == Walk(cal, StartOfWalk(cal, today))

\* countStreaks is called on a stored calendar and returns.
CS_Call(p) ==
    /\ task[p].pc = "idle"
    /\ \E c \in Cals :
         task' = [task EXCEPT ![p] =
                    [IdleTask EXCEPT !.fn = "countStreaks", !.cal = c,
                                     !.ret = CountStreaks(calendars[c], clock.day),
                                     !.pc = "resolved"]]
    /\ UNCHANGED <<matrixEnabled, users, calendars, clock, hist>>

\* ------------------------------------------------------------ the environment
\* A user marks today's status of one of the calendars.
UserSetDay(c) ==
    /\ \E s \in {"success", "fail"} :
         /\ calendars[c].days[clock.day] # s
         /\ SetDayState(c, clock.day, s)
    /\ hist' = Touch(hist, c)
    /\ UNCHANGED <<matrixEnabled, users, clock, task>>

\* Time passes within the day.
Tick ==
    /\ clock.tod < MaxTod
    /\ clock' = [clock EXCEPT !.tod = @ + 1]
    /\ UNCHANGED <<matrixEnabled, users, calendars, task, hist>>

\* The rest of the day passes: at midnight the next calendar day begins.
Midnight ==
    /\ clock.day < MaxDay
    /\ clock' = [day |-> clock.day + 1, tod |-> 0]
    /\ hist' = NoHist
    /\ UNCHANGED <<matrixEnabled, users, calendars, task>>

\* ------------------------------------------------------------ initial states
Windows == {<<0, EndOfDay>>, <<MaxTod, MaxTod>>}
Channels == {"", "matrix", "other"}

\* The notification settings a user can have stored. channel is read only
\* when enabled is set, and nothing is read of a user without notifications.
Profiles ==
    {UserDoc(TRUE, r, w, e, ch) :
       r \in BOOLEAN, w \in Windows, e \in {TRUE}, ch \in Channels}
    \cup {UserDoc(TRUE, r, w, FALSE, "matrix") : r \in BOOLEAN, w \in Windows}
    \cup {UserDoc(FALSE, FALSE, <<0, EndOfDay>>, FALSE, "")}

\* A user with every notification switched on, the whole day long.
PlainUser == UserDoc(TRUE, TRUE, <<0, EndOfDay>>, TRUE, "matrix")

InitWith(M, U1, UN, C1, CN) ==
    /\ matrixEnabled \in M
    /\ users \in {f \in [Users -> U1 \cup UN] : f[1] \in U1 /\ \A u \in Users \ {1} : f[u] \in UN}
    /\ calendars \in {f \in [Cals -> C1 \cup CN] : f[1] \in C1 /\ \A c \in Cals \ {1} : f[c] \in CN}
    /\ clock = [day |-> 1, tod |-> 0]
    /\ task = [p \in Tasks |-> IdleTask]
    /\ hist = NoHist

\* Sequential sweeps over one day: one sendReminders or one sendNotifications
\* at a time. The first user has any of the profiles and owns the first
\* calendar; the others are plain users.
Init ==
    InitWith(BOOLEAN, Profiles, {PlainUser},
             {CalDoc(1, DefaultAgenda, r) : r \in BOOLEAN},
             {CalDoc(o, DefaultAgenda, r) : o \in Users, r \in BOOLEAN})

Next ==
    \/ SR_Start("d1")
    \/ SR_Connect("d1")
    \/ SR_GetUsers("d1")
    \/ SR_EvalUser("d1")
    \/ SR_Write("d1")
    \/ SR_Finish("d1")
    \/ SN_Start("d1")
    \/ SN_Connect("d1")
    \/ SN_GetUsers("d1")
    \/ SN_EvalUser("d1")
    \/ SN_Finish("d1")
    \/ Settle("d1")
    \/ Return("d1")
    \/ \E c \in Cals : UserSetDay(c)
    \/ Tick

Spec == Init /\ [][Next]_vars

\* The daemon: one runDaemons at a time, over the modelled days. The
\* calendars have any of the agendas.
InitDaemon ==
    InitWith(BOOLEAN, {PlainUser}, {PlainUser},
             {CalDoc(1, a, TRUE) : a \in Agendas},
             {CalDoc(o, a, TRUE) : o \in Users, a \in Agendas})

NextDaemon ==
    \/ RD_Start("d1")
    \/ BD_GetCalendars("d1")
    \/ BD_ForEach("d1")
    \/ BD_Write("d1")
    \/ BD_Done("d1")
    \/ SN_Connect("d1")
    \/ SN_GetUsers("d1")
    \/ SN_EvalUser("d1")
    \/ SN_Finish("d1")
    \/ Settle("d1")
    \/ Return("d1")
    \/ \E c \in Cals : UserSetDay(c)
    \/ Midnight

SpecDaemon == InitDaemon /\ [][NextDaemon]_vars

\* The daemon of an instance without Matrix (MATRIX_ENABLED unset), run any
\* number of times, with the store answering every request of setBreakdays:
\* each promise of getCalendars and of setDayState settles, and the
\* callbacks of settled promises run. The day changes only while the
\* reconciler reads the clock.
InitBreakdays ==
    InitWith({FALSE}, {PlainUser}, {PlainUser},
             {CalDoc(1, a, TRUE) : a \in Agendas},
             {CalDoc(o, a, TRUE) : o \in Users, a \in Agendas})

NextBreakdays ==
    \/ RD_Start("d1")
    \/ BD_GetCalendars("d1")
    \/ BD_ForEach("d1")
    \/ BD_Write("d1")
    \/ BD_Done("d1")
    \/ SN_GetUsers("d1")
    \/ SN_EvalUser("d1")
    \/ SN_Finish("d1")
    \/ Return("d1")
    \/ \E c \in Cals : UserSetDay(c)

FairBreakdays ==
    /\ WF_vars(BD_GetCalendars("d1"))
    /\ WF_vars(BD_ForEach("d1"))
    /\ WF_vars(BD_Write("d1"))
    /\ WF_vars(BD_Done("d1"))

SpecBreakdays == InitBreakdays /\ [][NextBreakdays]_vars /\ FairBreakdays

\* The event-triggered congratulation: one sendCongratulation at a time,
\* called for any calendar at any time of the day.
InitCongratulation ==
    InitWith(BOOLEAN,
             {UserDoc(TRUE, r, w, TRUE, "matrix") : r \in BOOLEAN, w \in Windows},
             {PlainUser},
             {CalDoc(1, DefaultAgenda, TRUE)},
             {CalDoc(o, DefaultAgenda, TRUE) : o \in Users})

NextCongratulation ==
    \/ SC_Start("ev")
    \/ SC_Connect("ev")
    \/ SC_Check("ev")
    \/ SC_Finish("ev")
    \/ Settle("ev")
    \/ Return("ev")
    \/ \E c \in Cals : UserSetDay(c)
    \/ Tick

SpecCongratulation == InitCongratulation /\ [][NextCongratulation]_vars

\* Sequential decision sweeps over the modelled days, for plain users; no
\* sweep is in flight at midnight.
InitDays ==
    InitWith({TRUE}, {PlainUser}, {PlainUser},
             {CalDoc(1, DefaultAgenda, TRUE)},
             {CalDoc(o, DefaultAgenda, TRUE) : o \in Users})

NextDays ==
    \/ SR_Start("d1")
    \/ SR_Connect("d1")
    \/ SR_GetUsers("d1")
    \/ SR_EvalUser("d1")
    \/ SR_Write("d1")
    \/ SR_Finish("d1")
    \/ Settle("d1")
    \/ Return("d1")
    \/ \E c \in Cals : UserSetDay(c)
    \/ (task["d1"].pc = "idle" /\ Midnight)

SpecDays == InitDays /\ [][NextDays]_vars

\* Two invocations of the decision sweep, each run once, that may overlap,
\* within one day; every user owns a calendar.
InitOverlap ==
    /\ InitWith({TRUE}, {PlainUser}, {PlainUser},
                {CalDoc(1, DefaultAgenda, TRUE)},
                {CalDoc(o, DefaultAgenda, TRUE) : o \in Users})
    /\ \A u \in Users : \E c \in Cals : calendars[c].user_id = u

NextOverlap ==
    \/ \E p \in Daemons :
         \/ SR_Start(p)
         \/ SR_Connect(p)
         \/ SR_GetUsers(p)
         \/ SR_EvalUser(p)
         \/ SR_Write(p)
         \/ SR_Finish(p)
         \/ Settle(p)
    \/ \E c \in Cals : UserSetDay(c)

SpecOverlap == InitOverlap /\ [][NextOverlap]_vars

\* countStreaks on calendars with any history of MaxLen days, read on any of
\* these days. The first calendar has any agenda and any statuses, 'breakday'
\* on the days its agenda does not expect only (the reconciler's days).
StreakDates == 1..MaxLen
StreakAgendas ==
    {[w \in 0..6 |-> w \notin off] : off \in SUBSET {WeekdayOf(d) : d \in StreakDates}}
Histories(a) ==
    {h \in [StreakDates -> Status \cup {NoStatus}] :
       \A d \in StreakDates : h[d] = "breakday" => ~ a[WeekdayOf(d)]}

InitStreaks ==
    /\ matrixEnabled = FALSE
    /\ users = [u \in Users |-> PlainUser]
    /\ \E a \in StreakAgendas : \E h \in Histories(a) :
         calendars = [c \in Cals |->
                        IF c = 1
                        THEN [user_id |-> 1, agenda |-> a, reminders |-> TRUE, days |-> h]
                        ELSE [user_id |-> 1, agenda |-> DefaultAgenda, reminders |-> TRUE,
                              days |-> [d \in StreakDates |-> NoStatus]]]
    /\ clock \in {[day |-> d, tod |-> 0] : d \in StreakDates}
    /\ task = [p \in Tasks |-> IdleTask]
    /\ hist = NoHist

NextStreaks ==
    \/ CS_Call("ev")
    \/ Return("ev")

SpecStreaks == InitStreaks /\ [][NextStreaks]_vars

\* ------------------------------------------------------------ claims
\* The iteration of a sweep for one user: the step of an invocation that
\* leaves `getCalendars`, the store having answered.
EvalStep(p) ==
    /\ task[p].pc = "getCalendars"
    /\ task'[p].pc # task[p].pc \/ task'[p].idx # task[p].idx
    /\ task'[p].err # "getCalendars"

\* What a step appended to notificationsPromises.
Queued(p) ==
    SubSeq(task'[p].batch, Len(task[p].batch) + 1, Len(task'[p].batch))

\* The reminder-enabled calendars of a user whose status for today is absent
\* or 'fail', and the calendars of a user with such a status.
DueCalendars(u) ==
    {c \in Cals : /\ calendars[c].user_id = u
                  /\ calendars[c].reminders
                  /\ calendars[c].days[clock.day] \in {NoStatus, "fail"}}
OpenCalendars(u) ==
    {c \in Cals : /\ calendars[c].user_id = u
                  /\ calendars[c].days[clock.day] \in {NoStatus, "fail"}}

C3_OriginalStep(p) ==
    LET u == task[p].idx
        new == Queued(p)
    IN /\ \A c \in DueCalendars(u) :
            Cardinality({i \in 1..Len(new) : new[i].kind = "reminder" /\ new[i].cal = c}) = 1
       /\ Cardinality({i \in 1..Len(new) : new[i].kind = "reminder"})
            = Cardinality(DueCalendars(u))
       /\ DueCalendars(u) # {} => \A i \in 1..Len(new) : new[i].kind # "streaks_done"

C3_Original ==
    [][\A p \in Daemons :
         task[p].fn = "sendReminders" /\ EvalStep(p) => C3_OriginalStep(p)]_vars

\* C3 as amended. sendReminders: the iteration for a user queues exactly one
\* fail reminder, a summary of the user's reminder-enabled calendars that
\* marks as failed exactly those whose status for today is absent or 'fail',
\* when there is such a calendar, the Matrix client is connected, the user
\* has a room and the time of day is inside the user's window, and no
\* reminder otherwise; when there is such a calendar it queues no all-done
\* congratulation. sendNotifications: with the client connected and a room,
\* the iteration queues one message per calendar of the user whose status is
\* absent or 'fail', and nothing otherwise.
C3_ReminderStep(p) ==
    LET u == task[p].idx
        me == task[p].snap[u]
        new == Queued(p)
        due == /\ DueCalendars(u) # {}
               /\ me.notifications
               /\ task[p].matrix = "open"
               /\ me.room
               /\ HourBetween(me.start, me.end)
    IN /\ due => /\ Len(new) = 1
                 /\ new[1].kind = "reminder" /\ new[1].user = u
                 /\ new[1].fails = DueCalendars(u)
                 /\ new[1].elig = {c \in Cals : calendars[c].user_id = u
                                                /\ calendars[c].reminders}
       /\ ~ due => \A i \in 1..Len(new) : new[i].kind # "reminder"
       /\ DueCalendars(u) # {} => \A i \in 1..Len(new) : new[i].kind # "streaks_done"

C3_MessageStep(p) ==
    LET u == task[p].idx
        me == task[p].snap[u]
        new == Queued(p)
        due == me.notifications /\ task[p].matrix = "open" /\ me.room
    IN /\ due => /\ Len(new) = Cardinality(OpenCalendars(u))
                 /\ \A c \in OpenCalendars(u) :
                      \E i \in 1..Len(new) :
                        new[i].kind = "message" /\ new[i].user = u /\ new[i].cal = c
       /\ ~ due => new = <<>>

C3_Reminders ==
    /\ [](\A p \in Daemons : \A u \in Users :
            Cardinality(SendsOf(task[p].batch, "reminder", u)) <= 1)
    /\ [][\A p \in Daemons :
            /\ task[p].fn = "sendReminders" /\ EvalStep(p) => C3_ReminderStep(p)
            /\ task[p].fn = "sendNotifications" /\ EvalStep(p) => C3_MessageStep(p)]_vars

\* A sweep has queued one reminder for a user with two reminder-enabled
\* calendars, one of them failing and one passing.
C3_Witness ==
    \E u \in Users : \E i \in 1..Len(task["d1"].batch) :
      LET m == task["d1"].batch[i]
      IN /\ m.kind = "reminder" /\ m.user = u
         /\ Cardinality(m.elig) = 2
         /\ Cardinality(m.fails) = 1
         /\ SendsOf(task["d1"].batch, "streaks_done", u) = {}

\* C4 as stated: the iteration of the decision sweep for a user, run at a time
\* of day outside the user's window, queues neither a fail reminder nor an
\* all-done congratulation for the user.
C4_Original ==
    [][\A p \in Daemons :
         (/\ task[p].fn = "sendReminders"
          /\ EvalStep(p)
          /\ task[p].snap[task[p].idx].notifications
          /\ ~ HourBetween(task[p].snap[task[p].idx].start,
                           task[p].snap[task[p].idx].end))
         => Queued(p) = <<>>]_vars

\* C5: when a sendReminders sweep has ended, every user it found with a
\* failing reminder-eligible calendar and with sent_today true has
\* sent_today false.
C5_ResetOnFail ==
    \A p \in Daemons :
      task[p].fn = "sendReminders" /\ task[p].pc = "resolved" =>
        \A u \in DOMAIN task[p].evals :
          task[p].evals[u].fails # {} /\ task[p].snap[u].sent_today
            => ~ users[u].sent_today

\* A sweep has ended that found sent_today true and a failing calendar, and
\* queued no reminder for the user: the flag is reset all the same.
C5_Witness ==
    \E u \in Users :
      /\ task["d1"].fn = "sendReminders" /\ task["d1"].pc = "resolved"
      /\ u \in DOMAIN task["d1"].evals
      /\ task["d1"].evals[u].fails # {}
      /\ task["d1"].snap[u].sent_today
      /\ ~ users[u].sent_today
      /\ SendsOf(task["d1"].batch, "reminder", u) = {}

\* C9: the batch of a sweep is done only when every send of it has settled,
\* fulfilled or rejected, and no sweep ever rejects because a send failed.
C9_AllSettle ==
    \A p \in Daemons :
      /\ task[p].pc = "resolved" =>
           \A i \in 1..Len(task[p].batch) : task[p].batch[i].st \in {"ok", "failed"}
      /\ task[p].err # "send"

\* A sweep has resolved whose batch holds a send that failed before a send
\* that succeeded.
C9_Witness ==
    /\ task["d1"].pc = "resolved"
    /\ \E i, j \in 1..Len(task["d1"].batch) :
         /\ i < j
         /\ task["d1"].batch[i].st = "failed"
         /\ task["d1"].batch[j].st = "ok"

\* C1 as stated: no step replaces a stored 'success' by 'breakday'.
C1_Original ==
    [][\A c \in Cals : \A d \in Dates :
         calendars[c].days[d] = "success" => calendars'[c].days[d] # "breakday"]_vars

\* C10 as stated: a runDaemons whose connect has failed still ends: its
\* promise is resolved and no rejection is left unhandled.
C10_Original ==
    \A p \in Daemons :
      task[p].fn = "runDaemons" /\ task[p].err = "connect" => task[p].pc = "resolved"

\* C6 as stated: a calendar whose status for today is 'success' gets no
\* second congratulation while that status is unchanged.
C6_Original ==
    \A c \in Cals :
      calendars[c].days[clock.day] = "success" => hist.congrats[c] <= 1

\* C6 as amended: a call of sendCongratulation queues at most one
\* congratulation; none when today's status of the calendar it was given is
\* set and is not 'success'; and one, whether or not one was sent before,
\* when that status is 'success' or absent, the Matrix client is connected,
\* the user has a room and the time of day is inside the user's window.
C6_CheckStep(p) ==
    LET t == task[p]
        me == t.snap[t.user]
        st == t.calsnap.days[clock.day]
        new == Queued(p)
    IN /\ Len(new) <= 1
       /\ st \in {"fail", "breakday"} => new = <<>>
       /\ (/\ st \in {"success", NoStatus}
           /\ t.matrix = "open" /\ me.room /\ HourBetween(me.start, me.end))
          => /\ Len(new) = 1
             /\ new[1].kind = "congratulation"
             /\ new[1].user = t.user /\ new[1].cal = t.cal

C6_OnePerCall ==
    [][\A p \in Tasks :
         (/\ task[p].fn = "sendCongratulation"
          /\ task[p].pc = "check"
          /\ task'[p].pc # "check")
         => C6_CheckStep(p)]_vars

\* A second congratulation has been queued for a calendar whose status for
\* today was 'success' at both calls.
C6_Witness ==
    \E c \in Cals :
      /\ calendars[c].days[clock.day] = "success"
      /\ hist.congrats[c] = 2
      /\ task["ev"].cal = c
      /\ task["ev"].calsnap.days[clock.day] = "success"
      /\ Len(task["ev"].batch) = 1

\* C7 as stated: the iteration of the decision sweep that finds the
\* reminder-eligible calendars of a user, at least one, all passing, inside
\* the user's window,
\* with streaks_done enabled on the connected Matrix channel, leaves the user
\* with an all-done congratulation dispatched on that calendar day.
C7_Original ==
    [][\A p \in Daemons :
         LET u == task[p].idx
             me == task[p].snap[u]
         IN (/\ task[p].fn = "sendReminders"
             /\ EvalStep(p)
             /\ me.notifications
             /\ DueCalendars(u) = {}
             /\ \E c \in Cals : calendars[c].user_id = u /\ calendars[c].reminders
             /\ me.enabled /\ me.channel = "matrix" /\ me.room
             /\ task[p].matrix = "open"
             /\ HourBetween(me.start, me.end))
            => hist'.done[u] >= 1]_vars

\* C8 as stated: also when invocations overlap, no user gets a second
\* all-done congratulation while the statuses of their calendars are
\* unchanged (the store not having failed to set the user's sent_today).
C8_Original ==
    \A u \in Users : hist.since[u] < 2 \/ hist.lost[u]

\* setBreakdays is running in the invocation.
InBreakdays(p) ==
    task[p].pc \in {"bd_getCalendars", "bd_forEach", "bd_writes"}

\* C11: a step of setBreakdays. When the list of the calendars cannot be
\* read, setBreakdays resolves (sendNotifications starts). An update is
\* started for every calendar that is due a breakday. An update that
\* settles, stored or failed, is the only one that leaves the pending
\* updates, and a stored one has written 'breakday'; a failed one changes
\* nothing in the store. setBreakdays resolves only when no update is
\* pending, and it never rejects.
C11_Step(p) ==
    LET t == task[p]
        t2 == task'[p]
    IN /\ t.pc = "bd_getCalendars" /\ t2.pc # t.pc
            => t2.pc \in {"bd_forEach", "connect", "getUsers"}
       /\ t.pc = "bd_forEach" /\ t2.pc # t.pc /\ clock' = clock
            => /\ t2.pc = "bd_writes"
               /\ t2.writes =
                    {[cal |-> c, date |-> clock.day] :
                       c \in {x \in Cals :
                                /\ ~ t.calsnap[x].agenda[WeekdayOf(clock.day)]
                                /\ t.calsnap[x].days[clock.day] # "success"}}
       /\ t.pc = "bd_writes" /\ t2.writes # t.writes
            => /\ t2.pc = "bd_writes"
               /\ \E w \in t.writes :
                    /\ t2.writes = t.writes \ {w}
                    /\ \/ calendars' = [calendars EXCEPT ![w.cal].days[w.date] = "breakday"]
                       \/ calendars' = calendars
       /\ t.pc = "bd_writes" /\ t2.pc # t.pc
            => t.writes = {} /\ t2.pc \in {"connect", "getUsers"}
       /\ InBreakdays(p) => t2.err = ""

\* C11: every step of setBreakdays is as above and, the store answering
\* every request, a setBreakdays that has started resolves.
C11_BestEffort ==
    /\ [][C11_Step("d1")]_vars
    /\ (InBreakdays("d1") ~> ~ InBreakdays("d1"))

\* Two calendars were due a breakday on the first day; the update of the
\* first one failed and that of the second one is stored, and no update is
\* pending: setBreakdays resolves.
C11_Witness ==
    /\ task["d1"].fn = "runDaemons" /\ task["d1"].pc = "bd_writes"
    /\ task["d1"].writes = {}
    /\ clock.day = 1
    /\ \A c \in {1, 2} : BreakdayDue(task["d1"].calsnap[c], WeekdayOf(1), 1)
    /\ calendars[1].days[1] = NoStatus
    /\ calendars[2].days[1] = "breakday"

\* The first agenda-expected day, walking backward from day `from`, that is
\* 'fail' or unrecorded (0: there is none).
StopOfWalk(cal, from) ==
    LET S == {d \in 1..from : Expected(cal, d) /\ cal.days[d] \in {"fail", NoStatus}}
    IN IF S = {} THEN 0 ELSE CHOOSE d \in S : \A e \in S : e <= d

\* The agenda-expected 'success' days between that day and the most recent
\* recorded day that is not in the future.
CountedDays(cal, today) ==
    LET from == IF Recorded(cal, today) = {} THEN 0
                ELSE CHOOSE d \in Recorded(cal, today) :
                       \A e \in Recorded(cal, today) : e <= d
    IN {d \in (StopOfWalk(cal, from) + 1)..from :
          Expected(cal, d) /\ cal.days[d] = "success"}

\* The last n days, and those of them that the agenda expects.
LastDays(today, n) == (today - n + 1)..today
LastExpected(cal, today, n) == {d \in LastDays(today, n) : Expected(cal, d)}

C13_Original ==
    [][\A p \in Daemons :
         LET u == task[p].idx
         IN (/\ task[p].fn = "sendReminders"
             /\ task[p].pc = "write" /\ task'[p].pc # "write"
             /\ ~ users[u].sent_today /\ users'[u].sent_today)
            => SendsOf(task[p].batch, "streaks_done", u) # {}]_vars

\* C14 as stated: an invocation that has connected the Matrix client and has
\* returned, or thrown, has disconnected it, and the client is disconnected
\* only when every send of the batch has settled.
C14_Original ==
    \A p \in Tasks :
      /\ task[p].pc \in {"resolved", "rejected", "unhandled"} => task[p].matrix # "open"
      /\ task[p].matrix = "closed" =>
           \A i \in 1..Len(task[p].batch) : task[p].batch[i].st # "pending"

\* C15 as stated: 'breakday' is stored only under a date whose weekday the
\* agenda of the calendar does not expect, and the updates that one run of
\* the reconciler starts are all for one and the same date.
C15_Original ==
    /\ [][\A c \in Cals : \A d \in Dates :
            calendars[c].days[d] # "breakday" /\ calendars'[c].days[d] = "breakday"
              => ~ calendars[c].agenda[WeekdayOf(d)]]_vars
    /\ [](\A p \in Daemons : \A v, w \in task[p].writes : v.date = w.date)

\* C16 as stated: a sendReminders sweep does not throw when the store fails
\* on the calendars or on the sent_today of one user: it goes on with the
\* next user.
C16_Original ==
    \A p \in Daemons :
      task[p].fn = "sendReminders"
        => task[p].err \notin {"getCalendars", "setStreaksDoneSentToday"}

====
